---- MODULE Spec2Model ----
(***************************************************************************)
(* Model of src/HandleChannelsBot.py: the channel and group management     *)
(* bot (warning ledger, monitored chats, message store, periodic link      *)
(* check).  Coroutines are modelled with one action per stretch of code    *)
(* between two suspension points (an await of a network operation or of    *)
(* asyncio.sleep); the platform's answer to an outbound operation is a     *)
(* nondeterministic choice between success and TelegramError.              *)
(***************************************************************************)
EXTENDS Integers, Sequences, FiniteSets, TLC

\* ------------------------------------------------------------------------
\* Program constants
\* ------------------------------------------------------------------------
WARNING_THRESHOLD == 3

\* line 57 (seconds)
CHECK_LINKS_INTERVAL == 60

\* line 434: first=10 (seconds)
FIRST_RUN == 10

\* line 5 and the comment of line 57: the documented period of the link check, in minutes
DOCUMENTED_MINUTES == 30

\* line 58 (days); no line of the code reads it
SCAN_MESSAGE_DAYS == 7

\* ------------------------------------------------------------------------
\* Bounds of the model
\* ------------------------------------------------------------------------
\* number of warn_user calls started in one behaviour
MaxCalls == 4

\* number of messages a chat's list in chat_messages holds
MaxMsgs == 1

\* the clock advances DaysPerTick days at a time, up to MaxNow
DaysPerTick == 4
MaxNow == 8

\* the job queue is followed for MaxClock seconds
MaxClock == 150

\* OptionDirectBot: at most MaxRequests requests are appended, and each
\* feedback counter is followed up to MaxFeedback
MaxRequests == 2
MaxFeedback == 1

\* a text given to extract_urls has at most MaxWords words
MaxWords == 3

Users == {"u1", "u2"}
Chats == {"c1", "c2"}

VARIABLES
  USER_WARNINGS,   \* dict user_id -> warning count (a function on the keys present)
  calls,           \* the warn_user coroutines started so far, in start order
  banned,          \* platform state: <<chat, user>> pairs banned by ban_chat_member
  MONITORED_CHATS, \* set of chat ids
  own_status,      \* per chat, the status of the last my_chat_member event about the bot
  ACTIVE_LINKS,    \* dict chat_id -> dict url -> title
  chat_messages,   \* dict chat_id -> list of stored messages, in insertion order
  disk,            \* content of chat_messages.pkl
  now,             \* the clock, in days
  job,             \* the check_all_links coroutine and the record of its last cycle
  last,            \* the last run of handle_message or handle_chat_join: what it did
  checked,         \* the last call of is_allowed_domain: its url and what it returned
  extracted,       \* the last call of extract_urls: the words of its text and what it returned
  timer,           \* the job queue: seconds since start, the next run and the last two runs
  routed,          \* the last update the application dispatched and the handler that got it
  processing_queue, \* OptionDirectBot: deque of <<chat id, request>> (line 56)
  user_data,       \* OptionDirectBot: per user, context.user_data ('state', 'image_file_id')
  feedback_counts, \* OptionDirectBot: likes and dislikes (lines 50-53)
  running,         \* OptionDirectBot: the handle_message coroutine that is in progress
  requests,        \* OptionDirectBot: the requests appended so far: completed, or a call of theirs failed
  tasks,           \* OptionDirectBot: simulate_processing tasks created (lines 295, 359)
  handled          \* OptionDirectBot: the last update a handler has finished with

warnVars == <<USER_WARNINGS, calls, banned>>
optVars == <<processing_queue, user_data, feedback_counts, running, requests, tasks, handled>>
botVars == <<MONITORED_CHATS, own_status, ACTIVE_LINKS, chat_messages, disk, now, job, last,
             checked, extracted, timer, routed, optVars>>
vars == <<USER_WARNINGS, calls, banned, MONITORED_CHATS, own_status, ACTIVE_LINKS,
          chat_messages, disk, now, job, last, checked, extracted, timer, routed,
          processing_queue, user_data, feedback_counts, running, requests, tasks, handled>>

\* ------------------------------------------------------------------------
\* dict helpers
\* ------------------------------------------------------------------------
\* d[k] = v on a dict (insert or overwrite)
DictSet(d, k, v) == [x \in (DOMAIN d) \cup {k} |-> IF x = k THEN v ELSE d[x]]

\* del d[k] for a key that is present
DictDel(d, k) == [x \in (DOMAIN d) \ {k} |-> d[x]]

EmptyDict == [x \in {} |-> 0]

\* the count a dict stores for a user, 0 when the user has no entry
CountIn(d, u) == IF u \in DOMAIN d THEN d[u] ELSE 0

Count(u) == CountIn(USER_WARNINGS, u)

\* ------------------------------------------------------------------------
\* Texts and URLs.  A text is a sequence of one-character strings.
\* ------------------------------------------------------------------------
Lower == {"a", "b", "c", "d", "e", "f", "g", "h", "i", "j", "k", "l", "m",
          "n", "o", "p", "q", "r", "s", "t", "u", "v", "w", "x", "y", "z"}
Upper == {"A", "B", "C", "D", "E", "F", "G", "H", "I", "J", "K", "L", "M",
          "N", "O", "P", "Q", "R", "S", "T", "U", "V", "W", "X", "Y", "Z"}
Digit == {"0", "1", "2", "3", "4", "5", "6", "7", "8", "9"}

\* the character class [$-_] of line 167: the ASCII range 0x24 .. 0x5F
DollarToUnderscore ==
  {"$", "%", "&", "'", "(", ")", "*", "+", ",", "-", ".", "/", ":", ";", "<",
   "=", ">", "?", "@", "[", "\\", "]", "^", "_"} \cup Digit \cup Upper

\* line 167: one character of the repeated group
\* [a-zA-Z] | [0-9] | [$-_@.&+] | [!*\\(\\),] | %XX  (%XX is covered by [$-_])
UrlChar(c) == c \in Lower \cup Upper \cup Digit \cup DollarToUnderscore
                    \cup {"@", ".", "&", "+"} \cup {"!", "*", "\\", "(", ")", ","}

\* text[i..] starts with the sequence p
StartsWithAt(text, i, p) ==
  /\ i + Len(p) - 1 <= Len(text)
  /\ \A k \in 1..Len(p) : text[i + k - 1] = p[k]

\* the position after "http://" or "https://" matched at i, 0 when neither matches
SchemeEnd(text, i) ==
  IF StartsWithAt(text, i, <<"h", "t", "t", "p", "s", ":", "/", "/">>) THEN i + 8
  ELSE IF StartsWithAt(text, i, <<"h", "t", "t", "p", ":", "/", "/">>) THEN i + 7
  ELSE 0

\* the end (last index) of the longest run of characters satisfying the class from i on;
\* i - 1 when text[i] does not satisfy it
RECURSIVE UrlRunEnd(_, _)
UrlRunEnd(text, i) ==
  IF i <= Len(text) /\ UrlChar(text[i]) THEN UrlRunEnd(text, i + 1) ELSE i - 1

\* lines 165-168: re.findall(url_pattern, text), scanning from position i
RECURSIVE FindAllUrls(_, _)
FindAllUrls(text, i) ==
  IF i > Len(text) THEN <<>>
  ELSE LET s == SchemeEnd(text, i)
           e == IF s = 0 THEN 0 ELSE UrlRunEnd(text, s)
       IN IF s # 0 /\ e >= s
          THEN <<SubSeq(text, i, e)>> \o FindAllUrls(text, e + 1)
          ELSE FindAllUrls(text, i + 1)

\* extract_urls returning each distinct URL once, at its first position
extract_urls_dedup(text) ==
  LET all == FindAllUrls(text, 1)
      first == {k \in 1..Len(all) : \A j \in 1..(k - 1) : all[j] # all[k]}
  IN [n \in 1..Cardinality(first) |->
        all[CHOOSE k \in first : Cardinality({j \in first : j <= k}) = n]]

extract_urls(text) == FindAllUrls(text, 1)

\* line 55
ALLOWED_DOMAINS == {<<"b", "l", "n", "d", "e", "v", ".", "c", "o", "m">>}

\* Python's "sub in s" on strings
Contains(s, sub) == \E i \in 1..(Len(s) + 1) : StartsWithAt(s, i, sub)

\* the end of the longest run of characters other than "/" from i on
RECURSIVE NonSlashRunEnd(_, _)
NonSlashRunEnd(url, i) ==
  IF i <= Len(url) /\ url[i] # "/" THEN NonSlashRunEnd(url, i + 1) ELSE i - 1

\* line 191: the group of the first match of https?://(?:www\.)?([^/]+) in url
\* at or after position i; <<>> when there is no match (findall(...)[0] raises
\* IndexError).  The optional "www." is given up when nothing but "/" or the
\* end follows it, and the group is then "www." itself.
RECURSIVE FirstDomain(_, _)
FirstDomain(url, i) ==
  IF i > Len(url) THEN <<>>
  ELSE LET s == SchemeEnd(url, i)
           w == IF s # 0 /\ StartsWithAt(url, s, <<"w", "w", "w", ".">>) THEN s + 4 ELSE 0
       IN IF s = 0 THEN FirstDomain(url, i + 1)
          ELSE IF w # 0 /\ NonSlashRunEnd(url, w) >= w
               THEN SubSeq(url, w, NonSlashRunEnd(url, w))
          ELSE IF NonSlashRunEnd(url, s) >= s
               THEN SubSeq(url, s, NonSlashRunEnd(url, s))
          ELSE FirstDomain(url, i + 1)

\* is_allowed_domain with "return True" at line 194
is_allowed_domain_fail_open(url) ==
  LET domain == FirstDomain(url, 1)
  IN IF domain = <<>> THEN TRUE
     ELSE \E allowed \in ALLOWED_DOMAINS : Contains(domain, allowed)

\* lines 188-194: False when no domain is found (the bare except)
is_allowed_domain(url) ==
  LET domain == FirstDomain(url, 1)
  IN IF domain = <<>> THEN FALSE
     ELSE \E allowed \in ALLOWED_DOMAINS : Contains(domain, allowed)

\* The message texts of the model.  A message carries its text by name; Chars
\* gives the characters of the named text.
TextPlain == "hi"
TextNsfw == "nsfw"
TextBad == "see https://evil.example/x"
TextGood == "https://blndev.com/a"
TextGoodBad == "https://blndev.com/a http://evil.example"
TextBadBad == "http://evil.example/1 http://bad.example"
TextGoodGood == "https://blndev.com/a https://www.blndev.com/b"

Texts == {TextPlain, TextNsfw, TextBad, TextGood, TextGoodBad, TextBadBad, TextGoodGood}

Chars(t) ==
  CASE t = TextPlain -> \* no URL
       <<"h", "i">>
    [] t = TextNsfw -> \* the word the periodic check looks for, no URL
       <<"n", "s", "f", "w">>
    [] t = TextBad -> \* one URL of a domain that is not allowed
       <<"s", "e", "e", " ", "h", "t", "t", "p", "s", ":", "/", "/", "e", "v", "i", "l", ".", "e", "x", "a", "m", "p", "l", "e", "/", "x">>
    [] t = TextGood -> \* one URL of the allowed domain
       <<"h", "t", "t", "p", "s", ":", "/", "/", "b", "l", "n", "d", "e", "v", ".", "c", "o", "m", "/", "a">>
    [] t = TextGoodBad -> \* an allowed URL followed by a disallowed one
       <<"h", "t", "t", "p", "s", ":", "/", "/", "b", "l", "n", "d", "e", "v", ".", "c", "o", "m", "/", "a", " ", "h", "t", "t", "p", ":", "/", "/", "e", "v", "i", "l", ".", "e", "x", "a", "m", "p", "l", "e">>
    [] t = TextBadBad -> \* two disallowed URLs
       <<"h", "t", "t", "p", ":", "/", "/", "e", "v", "i", "l", ".", "e", "x", "a", "m", "p", "l", "e", "/", "1", " ", "h", "t", "t", "p", ":", "/", "/", "b", "a", "d", ".", "e", "x", "a", "m", "p", "l", "e">>
    [] t = TextGoodGood -> \* two allowed URLs
       <<"h", "t", "t", "p", "s", ":", "/", "/", "b", "l", "n", "d", "e", "v", ".", "c", "o", "m", "/", "a", " ", "h", "t", "t", "p", "s", ":", "/", "/", "w", "w", "w", ".", "b", "l", "n", "d", "e", "v", ".", "c", "o", "m", "/", "b">>

\* extract_urls and is_allowed_domain on the texts of the model, as tables
UrlsOf == [t \in Texts |-> extract_urls(Chars(t))]

UrlsOfTexts == UNION {{UrlsOf[t][k] : k \in 1..Len(UrlsOf[t])} : t \in Texts}

AllowedUrl == [u \in UrlsOfTexts |-> is_allowed_domain(u)]

\* ------------------------------------------------------------------------
\* warn_user (lines 351-378)
\* ------------------------------------------------------------------------
\* lines 353-356: the count after this violation
WarnIncrement(d, u) == IF u \notin DOMAIN d THEN DictSet(d, u, 1) ELSE DictSet(d, u, d[u] + 1)

\* line 358: the branch taken
ThresholdReached(n) == n >= WARNING_THRESHOLD

\* number of warn_user calls already started for user u
Started(u) == Cardinality({i \in 1..Len(calls) : calls[i].user = u})

\* a call has left warn_user, by return or by an exception that propagates
Finished(c) == c.pc \in {"done", "raised"}

\* every call started so far for user u has left warn_user
AllFinished(u) == \A i \in 1..Len(calls) : calls[i].user = u => Finished(calls[i])

SetCall(i, r) == [calls EXCEPT ![i] = r]

\* a call of the ban branch ends: pc, the error it saw, and the stored count of
\* its user at that moment (0: no entry)
EndBanCall(c, pc, err, d) ==
  [c EXCEPT !.pc = pc, !.err = err,
            !.endCount = CountIn(d, c.user)]

\* a call of the warning branch ends
EndWarnCall(c, err) == [c EXCEPT !.pc = "done", !.err = err]

\* lines 353-360 / 368-373: everything up to the first suspension point.  The
\* increment, the threshold test and the issue of the first outbound call
\* (ban_chat_member, or send_message with the text "Warning n/3" built from
\* the count just written) run without an await in between.
WarnUserStart(u, ch) ==
  /\ Len(calls) < MaxCalls
  /\ LET d == WarnIncrement(USER_WARNINGS, u)
         n == d[u]
     IN /\ USER_WARNINGS' = d
        /\ calls' = Append(calls,
             [user |-> u, chat |-> ch, ord |-> Started(u) + 1, n |-> n,
              ban |-> ThresholdReached(n), prevDone |-> AllFinished(u),
              pc |-> IF ThresholdReached(n) THEN "ban" ELSE "warn_send",
              notice |-> 0, err |-> "none", endCount |-> -1])
  /\ UNCHANGED <<banned, botVars>>

\* ban_chat_member issued for every chat instead of chat_id (line 360)
BanReturnEveryChat(i, ok) ==
  /\ i \in 1..Len(calls)
  /\ calls[i].pc = "ban"
  /\ IF ok
     THEN /\ banned' = banned \cup {<<ch, calls[i].user>> : ch \in Chats}
          /\ calls' = SetCall(i, [calls[i] EXCEPT !.pc = "ban_notice"])
     ELSE /\ banned' = banned
          /\ calls' = SetCall(i, EndBanCall(calls[i], "done", "TelegramError", USER_WARNINGS))
  /\ UNCHANGED <<USER_WARNINGS, botVars>>

\* line 360 returns: ban_chat_member succeeded (line 361 send_message is issued)
\* or raised TelegramError (lines 366-367: logged, the entry is left as it is)
BanReturn(i, ok) ==
  /\ i \in 1..Len(calls)
  /\ calls[i].pc = "ban"
  /\ IF ok
     THEN /\ banned' = banned \cup {<<calls[i].chat, calls[i].user>>}
          /\ calls' = SetCall(i, [calls[i] EXCEPT !.pc = "ban_notice"])
     ELSE /\ banned' = banned
          /\ calls' = SetCall(i, EndBanCall(calls[i], "done", "TelegramError", USER_WARNINGS))
  /\ UNCHANGED <<USER_WARNINGS, botVars>>

\* lines 361-365 return: the removal notice was sent, then del USER_WARNINGS[user_id]
\* (KeyError when the entry is gone, which except TelegramError does not catch),
\* or send_message raised TelegramError (lines 366-367)
BanNoticeReturn(i, ok) ==
  /\ i \in 1..Len(calls)
  /\ calls[i].pc = "ban_notice"
  /\ IF ~ok
     THEN /\ USER_WARNINGS' = USER_WARNINGS
          /\ calls' = SetCall(i, EndBanCall(calls[i], "done", "TelegramError", USER_WARNINGS))
     ELSE IF calls[i].user \in DOMAIN USER_WARNINGS
     THEN /\ USER_WARNINGS' = DictDel(USER_WARNINGS, calls[i].user)
          /\ calls' = SetCall(i, EndBanCall(calls[i], "done", "none", USER_WARNINGS'))
     ELSE /\ USER_WARNINGS' = USER_WARNINGS
          /\ calls' = SetCall(i, EndBanCall(calls[i], "raised", "KeyError", USER_WARNINGS))
  /\ UNCHANGED <<banned, botVars>>

\* lines 370-375: the warning notice "Warning n/3" was posted (asyncio.sleep(30)
\* starts) or send_message raised TelegramError (lines 377-378)
WarnSendReturn(i, ok) ==
  /\ i \in 1..Len(calls)
  /\ calls[i].pc = "warn_send"
  /\ calls' = SetCall(i, IF ok
                         THEN [calls[i] EXCEPT !.pc = "sleep", !.notice = calls[i].n]
                         ELSE EndWarnCall(calls[i], "TelegramError"))
  /\ UNCHANGED <<USER_WARNINGS, banned, botVars>>

\* lines 375-376: the sleep is over, warning_msg.delete() is issued
WarnSleepReturn(i) ==
  /\ i \in 1..Len(calls)
  /\ calls[i].pc = "sleep"
  /\ calls' = SetCall(i, [calls[i] EXCEPT !.pc = "warn_delete"])
  /\ UNCHANGED <<USER_WARNINGS, banned, botVars>>

\* lines 376-378: the delete of the warning notice returned or raised TelegramError
WarnDeleteReturn(i, ok) ==
  /\ i \in 1..Len(calls)
  /\ calls[i].pc = "warn_delete"
  /\ calls' = SetCall(i, EndWarnCall(calls[i], IF ok THEN "none" ELSE "TelegramError"))
  /\ UNCHANGED <<USER_WARNINGS, banned, botVars>>

\* ------------------------------------------------------------------------
\* chat_messages: a dict in insertion order, modelled as the sequence of its
\* items [chat_id, messages]
\* ------------------------------------------------------------------------
\* the key chat_id = None of line 74
NoneId == "None"

Keys(cm) == {cm[i].chat_id : i \in 1..Len(cm)}

IndexOf(cm, c) == CHOOSE i \in 1..Len(cm) : cm[i].chat_id = c

\* cm[c] for a key that is present
Get(cm, c) == cm[IndexOf(cm, c)].messages

\* cm[c] = msgs: a new key goes to the end, a present key keeps its place
Put(cm, c, msgs) ==
  IF c \in Keys(cm) THEN [cm EXCEPT ![IndexOf(cm, c)].messages = msgs]
  ELSE Append(cm, [chat_id |-> c, messages |-> msgs])

\* line 120: timedelta(days=7)
CLEANUP_DAYS == 7

\* lines 117-123, at clock t
clean_up_old_messages(cm, chat_id, t) ==
  Put(cm, chat_id, SelectSeq(Get(cm, chat_id), LAMBDA m : m.timestamp >= t - CLEANUP_DAYS))

\* the message_id the platform gives the next message of a chat: ids grow per chat
RECURSIVE MaxId(_)
MaxId(msgs) ==
  IF msgs = <<>> THEN 0
  ELSE LET r == MaxId(Tail(msgs))
       IN IF Head(msgs).message_id > r THEN Head(msgs).message_id ELSE r

NextMessageId(cm, c) == IF c \in Keys(cm) THEN MaxId(Get(cm, c)) + 1 ELSE 1

\* what a handler run leaves in the history variable last
Ran(handler, upd, raised, ops) ==
  [handler |-> handler, kind |-> upd.kind, chat |-> upd.chat, from_user |-> upd.from_user,
   text |-> upd.text, raised |-> raised, ops |-> ops, membership |-> upd.membership,
   delete_ok |-> upd.delete_ok]

NoRun == [handler |-> "none", kind |-> "none", chat |-> NoneId, from_user |-> NoneId,
          text |-> "", raised |-> "none", ops |-> <<>>, membership |-> "none",
          delete_ok |-> TRUE]

\* ------------------------------------------------------------------------
\* message_store_handler (lines 71-115), with clean_up_old_messages and
\* dump_chat_messages_to_disk.  upd.kind is "channel_post" (line 80),
\* "message" (line 88) or "other" (line 106: neither, e.g. an edited message).
\* ------------------------------------------------------------------------
message_store_handler(upd) ==
  /\ IF upd.kind = "message" /\ upd.private
     THEN \* lines 90-92: return
          UNCHANGED <<chat_messages, disk>>
     ELSE IF upd.kind = "message" /\ upd.chat \notin Keys(chat_messages)
     THEN \* line 100: chat_messages[chat_id].append raises KeyError
          UNCHANGED <<chat_messages, disk>>
     ELSE LET chat_id == IF upd.kind = "other" THEN NoneId ELSE upd.chat
              appended ==
                IF upd.kind = "message"
                THEN Put(chat_messages, chat_id,
                         Append(Get(chat_messages, chat_id),
                                [message_id |-> NextMessageId(chat_messages, chat_id),
                                 user_id |-> upd.from_user,
                                 message_text |-> upd.text,
                                 timestamp |-> now]))
                ELSE chat_messages
              ensured == IF chat_id \notin Keys(appended)
                         THEN Put(appended, chat_id, <<>>) ELSE appended
              cleaned == clean_up_old_messages(ensured, chat_id, now)
          IN /\ chat_messages' = cleaned
             /\ disk' = [exists |-> TRUE, content |-> cleaned]
  /\ UNCHANGED <<MONITORED_CHATS, own_status, ACTIVE_LINKS, now, job, last, warnVars, checked, extracted, timer>>

\* ------------------------------------------------------------------------
\* handle_message (lines 237-273)
\* ------------------------------------------------------------------------
\* line 251: "await x" raises TypeError unless x is awaitable; extract_urls is
\* a plain function and returns a list
AwaitRaises(kind) == kind # "awaitable"

\* lines 253-273: the outbound operations the loop issues for urls; it stops
\* at the first disallowed URL (break, line 273).  delete_ok: the platform
\* accepts the delete of line 260; when it raises TelegramError the rest of
\* the try block (lines 261-270) is skipped and lines 271-272 log the error.
RECURSIVE UrlLoop(_, _, _)
UrlLoop(urls, has_user, delete_ok) ==
  IF urls = <<>> THEN <<>>
  ELSE IF ~AllowedUrl[Head(urls)]
       THEN IF ~delete_ok THEN <<"delete_message">>
            ELSE <<"delete_message", "send_notice">>
                 \o (IF has_user THEN <<"warn_user", "sleep", "delete_notice">> ELSE <<>>)
       ELSE UrlLoop(Tail(urls), has_user, delete_ok)

\* the exception that leaves handle_message
handle_message_raised(upd) ==
  IF upd.kind = "other" THEN "none"                 \* lines 244-246: return
  ELSE IF AwaitRaises("list") THEN "TypeError"      \* line 251
  ELSE "none"

\* lines 253-273 without the break: every disallowed URL is acted on
RECURSIVE UrlLoopNoBreak(_, _)
UrlLoopNoBreak(urls, has_user) ==
  IF urls = <<>> THEN <<>>
  ELSE (IF ~AllowedUrl[Head(urls)]
        THEN <<"delete_message", "send_notice">>
             \o (IF has_user THEN <<"warn_user", "sleep", "delete_notice">> ELSE <<>>)
        ELSE <<>>)
       \o UrlLoopNoBreak(Tail(urls), has_user)

\* handle_message with the URL list used as it is (no await) and no break
handle_message_ops_no_break(upd) ==
  IF upd.kind = "other" THEN <<>>
  ELSE UrlLoopNoBreak(UrlsOf[upd.text], upd.from_user # NoneId)

\* the outbound operations handle_message issues for an update
handle_message_ops(upd) ==
  IF upd.kind = "other" \/ handle_message_raised(upd) # "none" THEN <<>>
  ELSE UrlLoop(UrlsOf[upd.text], upd.from_user # NoneId, upd.delete_ok)

handle_message(upd) ==
  /\ last' = Ran("handle_message", upd, handle_message_raised(upd), handle_message_ops(upd))
  /\ UNCHANGED <<MONITORED_CHATS, own_status, ACTIVE_LINKS, chat_messages, disk, now, job,
                 warnVars, checked, extracted, timer>>

\* ------------------------------------------------------------------------
\* handle_chat_join (lines 196-209).  ev.my_chat_member: the update carries a
\* my_chat_member; ev.is_bot: it is about the bot's own account; ok: the
\* answer to send_message (line 203), whose TelegramError nothing catches.
\* ------------------------------------------------------------------------
JoinedStatus == {"administrator", "member"}

\* the update is a my_chat_member update, or a service notice of a message
\* (new_chat_members, left_chat_member), which carries no my_chat_member
JoinKind(ev) == IF ev.my_chat_member THEN "my_chat_member" ELSE "service_notice"

handle_chat_join(ev, ok) ==
  /\ IF ev.my_chat_member /\ ev.is_bot
     THEN /\ own_status' = [own_status EXCEPT ![ev.chat] = ev.status]
          /\ IF ev.status \in JoinedStatus
             THEN /\ MONITORED_CHATS' = MONITORED_CHATS \cup {ev.chat}
                  /\ last' = [NoRun EXCEPT !.handler = "handle_chat_join", !.kind = JoinKind(ev), !.chat = ev.chat,
                                !.ops = <<"send_hello">>,
                                !.raised = IF ok THEN "none" ELSE "TelegramError"]
             ELSE /\ MONITORED_CHATS' = IF ev.status = "left"
                                        THEN MONITORED_CHATS \ {ev.chat}
                                        ELSE MONITORED_CHATS
                  /\ last' = [NoRun EXCEPT !.handler = "handle_chat_join", !.kind = JoinKind(ev), !.chat = ev.chat]
     ELSE /\ UNCHANGED <<own_status, MONITORED_CHATS>>
          /\ last' = [NoRun EXCEPT !.handler = "handle_chat_join", !.kind = JoinKind(ev), !.chat = ev.chat]
  /\ UNCHANGED <<ACTIVE_LINKS, chat_messages, disk, now, job, warnVars, checked, extracted, timer>>

\* ------------------------------------------------------------------------
\* check_url (lines 170-186): probe.answered is FALSE for a transport error
\* or timeout
\* ------------------------------------------------------------------------
\* line 181: response.headers.get('Location', 'unknown')
LocationOf(probe) == IF probe.location = NoneId THEN "unknown" ELSE probe.location

\* check_url without the branch of lines 180-182
check_url_no_301(probe) ==
  IF ~probe.answered THEN [is_valid |-> TRUE, error_message |-> ""]
  ELSE IF probe.status = 403 THEN [is_valid |-> FALSE, error_message |-> "403 Forbidden"]
  ELSE [is_valid |-> TRUE, error_message |-> ""]

check_url(probe) ==
  IF ~probe.answered THEN [is_valid |-> TRUE, error_message |-> ""]
  ELSE IF probe.status = 403 THEN [is_valid |-> FALSE, error_message |-> "403 Forbidden"]
  ELSE IF probe.status = 301
       THEN [is_valid |-> FALSE,
             error_message |-> "301 Moved Permanently to " \o LocationOf(probe)]
  ELSE [is_valid |-> TRUE, error_message |-> ""]

\* the answers to the HEAD request of line 177: a status with or without a
\* Location header, or no answer (transport error, timeout)
ProbeStatuses == {200, 301, 302, 403, 404}

Probes ==
  [answered : {TRUE}, status : ProbeStatuses, location : {NoneId}]
  \cup {[answered |-> TRUE, status |-> 301, location |-> "https://blndev.com/b"]}
  \cup {[answered |-> FALSE, status |-> 0, location |-> NoneId]}

\* ------------------------------------------------------------------------
\* check_all_links (lines 275-349)
\* ------------------------------------------------------------------------
\* lines 280-301: the loops over chats (dict order), messages (list order) and
\* URLs up to the first URL met, from chat ci and message mi on.  A message
\* with "nsfw" (lines 284-289) only creates a delete_message coroutine that is
\* never awaited, and the scan goes on with its URLs.
RECURSIVE FirstUrlFrom(_, _, _)
FirstUrlFrom(cm, ci, mi) ==
  IF ci > Len(cm) THEN [found |-> FALSE, ci |-> Len(cm), mi |-> 0, url |-> <<>>]
  ELSE IF mi > Len(cm[ci].messages) THEN FirstUrlFrom(cm, ci + 1, 1)
  ELSE LET urls == UrlsOf[cm[ci].messages[mi].message_text]
       IN IF urls # <<>> THEN [found |-> TRUE, ci |-> ci, mi |-> mi, url |-> urls[1]]
          ELSE FirstUrlFrom(cm, ci, mi + 1)

\* the chats whose messages the loop of line 280 has reached
ScannedUpTo(cm, ci) == [i \in 1..ci |-> cm[i].chat_id]

\* link: how line 303 classified the URL the cycle reached ("none": no URL);
\* probe, result: the answer check_url got for it and what check_url returned;
\* ops: the outbound operations the cycle has executed
NoProbe == [answered |-> FALSE, status |-> -1, location |-> NoneId]

NoResult == [is_valid |-> FALSE, error_message |-> "none"]

IdleJob == [pc |-> "idle", chat |-> NoneId, message_id |-> 0, url |-> <<>>,
            at_start |-> <<>>, scanned |-> <<>>, summaries |-> {}, outcome |-> "none",
            link |-> "none", probe |-> NoProbe, result |-> NoResult, ops |-> <<>>,
            pending |-> <<>>]

\* lines 333-346: the chats a summary is sent to
SummaryChats(links) == {c \in DOMAIN links : links[c] # EmptyDict}

\* the cycle from its start to its first suspension point or its end:
\*  - no URL in any stored message: the summary phase (lines 333-349) sends a
\*    summary to every chat with links and clears ACTIVE_LINKS;
\*  - the first URL is not allowed: line 306 creates a delete_message coroutine
\*    that is never awaited and line 307 reads message.user_id of a dict, which
\*    raises AttributeError; except TelegramError does not catch it and the
\*    cycle ends there;
\*  - the first URL is allowed: check_url is awaited (line 315).
CheckAllLinksStart ==
  /\ job.pc = "idle"
  /\ LET f == FirstUrlFrom(chat_messages, 1, 1)
         begun == [IdleJob EXCEPT !.at_start = ScannedUpTo(chat_messages, Len(chat_messages)),
                                  !.scanned = ScannedUpTo(chat_messages, f.ci)]
     IN IF ~f.found
        THEN /\ job' = [begun EXCEPT !.summaries = SummaryChats(ACTIVE_LINKS),
                                     !.outcome = "completed"]
             /\ ACTIVE_LINKS' = EmptyDict
        ELSE IF ~AllowedUrl[f.url]
        THEN /\ job' = [begun EXCEPT !.outcome = "AttributeError", !.link = "disallowed"]
             /\ ACTIVE_LINKS' = ACTIVE_LINKS
        ELSE /\ job' = [begun EXCEPT !.pc = "check_url", !.link = "allowed",
                                     !.chat = chat_messages[f.ci].chat_id,
                                     !.message_id = chat_messages[f.ci].messages[f.mi].message_id,
                                     !.url = f.url]
             /\ ACTIVE_LINKS' = ACTIVE_LINKS
  /\ UNCHANGED <<MONITORED_CHATS, own_status, chat_messages, disk, now, last, warnVars,
                 checked, extracted, timer, routed, optVars>>

\* check_url returns (line 315).  A link that is not valid: line 319 reads
\* message.delete of a dict and raises AttributeError.  A valid link: lines
\* 329-330 create ACTIVE_LINKS[chat_id] = {} and line 331 reads message.text of
\* a dict and raises AttributeError before anything is stored under the url.
\* Either way the exception leaves check_all_links.
CheckUrlReturn(probe) ==
  /\ job.pc = "check_url"
  /\ ACTIVE_LINKS' = IF check_url(probe).is_valid /\ job.chat \notin DOMAIN ACTIVE_LINKS
                     THEN DictSet(ACTIVE_LINKS, job.chat, EmptyDict)
                     ELSE ACTIVE_LINKS
  /\ job' = [job EXCEPT !.pc = "idle", !.chat = NoneId, !.message_id = 0, !.url = <<>>,
                        !.probe = probe, !.result = check_url(probe),
                        !.outcome = "AttributeError"]
  /\ UNCHANGED <<MONITORED_CHATS, own_status, chat_messages, disk, now, last, warnVars,
                 checked, extracted, timer, routed, optVars>>

\* ------------------------------------------------------------------------
\* The summary phase of check_all_links (lines 333-349) step by step.  The
\* loop of line 335 suspends at each send_message (line 341); job.pending
\* holds the chats of ACTIVE_LINKS the loop has still to visit, in dict order.
\* ------------------------------------------------------------------------
\* the sequences that enumerate the set S without repetition
Orders(S) ==
  {o \in [1..Cardinality(S) -> S] : \A i, j \in 1..Cardinality(S) : o[i] = o[j] => i = j}

\* line 336: skip the chats whose dict of links is empty
RECURSIVE SkipEmpty(_, _)
SkipEmpty(links, pending) ==
  IF pending = <<>> THEN <<>>
  ELSE IF links[Head(pending)] # EmptyDict THEN pending
  ELSE SkipEmpty(links, Tail(pending))

\* lines 335-346 from the chats still pending: the next send_message is
\* awaited, or the loop is over and ACTIVE_LINKS is cleared
SummaryLoop(j, pending) ==
  LET rest == SkipEmpty(ACTIVE_LINKS, pending)
  IN IF rest = <<>>
     THEN /\ job' = [j EXCEPT !.pc = "idle", !.chat = NoneId, !.pending = <<>>,
                              !.outcome = "completed"]
          /\ ACTIVE_LINKS' = EmptyDict
     ELSE /\ job' = [j EXCEPT !.pc = "send_summary", !.chat = Head(rest),
                              !.pending = Tail(rest)]
          /\ ACTIVE_LINKS' = ACTIVE_LINKS

\* line 333 is reached; order is the insertion order of ACTIVE_LINKS
SummaryStart(order) ==
  /\ job.pc = "idle"
  /\ job.outcome = "none"
  /\ SummaryLoop(IdleJob, order)
  /\ UNCHANGED <<MONITORED_CHATS, own_status, chat_messages, disk, now, last, warnVars,
                 checked, extracted, timer, routed, optVars>>

\* send_message of line 341 returns; a TelegramError is logged (lines 342-343)
SummarySendReturn(ok) ==
  /\ job.pc = "send_summary"
  /\ SummaryLoop([job EXCEPT !.summaries = @ \cup {job.chat},
                             !.ops = Append(@, [op |-> "send_summary", chat |-> job.chat,
                                                links |-> ACTIVE_LINKS[job.chat],
                                                ok |-> ok])],
                 job.pending)
  /\ UNCHANGED <<MONITORED_CHATS, own_status, chat_messages, disk, now, last, warnVars,
                 checked, extracted, timer, routed, optVars>>

\* ------------------------------------------------------------------------
\* The application's dispatch (main, lines 417-431).  The three handlers are
\* added without a group, so they share one group, and within a group an
\* update is given to the first handler whose filter accepts it and to no
\* other.  An update carries, besides what the handlers read:
\*   content   - "text", "command" (a text that starts with a bot command;
\*               the text field names what follows the command),
\*               "caption" (media with a caption), "new_chat_members",
\*               "left_chat_member" (service notices), "none" (no message)
\*   chat_type - "private", "group", "supergroup", "channel"
\* ------------------------------------------------------------------------
\* line 420: filters.TEXT & (~filters.COMMAND)
StoreFilter(upd) == upd.content = "text"

\* lines 423-425: (CHANNEL | GROUP | SUPERGROUP) & (TEXT | CAPTION)
MessageFilter(upd) ==
  /\ upd.chat_type \in {"channel", "group", "supergroup"}
  /\ upd.content \in {"text", "command", "caption"}

\* line 429: StatusUpdate.NEW_CHAT_MEMBERS | StatusUpdate.LEFT_CHAT_MEMBER
JoinFilter(upd) == upd.content \in {"new_chat_members", "left_chat_member"}

\* the handler an update is given to, in the order of registration
FirstMatching(upd) ==
  IF StoreFilter(upd) THEN "message_store_handler"
  ELSE IF MessageFilter(upd) THEN "handle_message"
  ELSE IF JoinFilter(upd) THEN "handle_chat_join"
  ELSE "none"

\* the exception that leaves message_store_handler: line 100 appends to
\* chat_messages[chat_id] before line 109 creates the key
message_store_handler_raised(upd) ==
  IF upd.kind = "message" /\ ~upd.private /\ upd.chat \notin Keys(chat_messages)
  THEN "KeyError" ELSE "none"

NoRoute == [handled |-> FALSE, handler |-> "none", kind |-> "none", chat |-> NoneId,
            chat_type |-> "none", content |-> "none", from_user |-> NoneId, text |-> "",
            raised |-> "none", at |-> 0]

Routed(upd, handler, raised) ==
  [handled |-> TRUE, handler |-> handler, kind |-> upd.kind, chat |-> upd.chat,
   chat_type |-> upd.chat_type, content |-> upd.content, from_user |-> upd.from_user,
   text |-> upd.text, raised |-> raised, at |-> now]

\* a service notice as handle_chat_join sees it: an update without my_chat_member
ServiceNotice(upd) ==
  [my_chat_member |-> FALSE, is_bot |-> FALSE, chat |-> upd.chat, status |-> "none"]

\* Application.process_update: one update is given to its handler
ProcessUpdate(upd) ==
  LET handler == FirstMatching(upd)
  IN CASE handler = "message_store_handler" ->
            /\ routed' = Routed(upd, handler, message_store_handler_raised(upd))
            /\ message_store_handler(upd)
       [] handler = "handle_message" ->
            /\ routed' = Routed(upd, handler, handle_message_raised(upd))
            /\ handle_message(upd)
       [] handler = "handle_chat_join" ->
            /\ routed' = Routed(upd, handler, "none")
            /\ handle_chat_join(ServiceNotice(upd), TRUE)
       [] OTHER ->
            /\ routed' = Routed(upd, handler, "none")
            /\ UNCHANGED <<MONITORED_CHATS, own_status, ACTIVE_LINKS, chat_messages, disk,
                           now, job, last, warnVars, checked, extracted, timer>>

\* ------------------------------------------------------------------------
\* is_allowed_domain (lines 188-194) called on a URL
\* ------------------------------------------------------------------------
NoCheck == [called |-> FALSE, url |-> <<>>, result |-> FALSE]

IsAllowedDomain(url) ==
  /\ ~checked.called
  /\ checked' = [called |-> TRUE, url |-> url, result |-> is_allowed_domain(url)]
  /\ UNCHANGED <<MONITORED_CHATS, own_status, ACTIVE_LINKS, chat_messages, disk, now, job,
                 last, warnVars, extracted, timer, routed, optVars>>

\* ------------------------------------------------------------------------
\* extract_urls (lines 165-168) called on a text
\* ------------------------------------------------------------------------
\* The words a text is made of, by name; WordChars gives their characters.
WordPlain == "hi"
WordColon == "see:"
WordScheme == "http://"
WordUrl == "http://a.b"
WordUrlPath == "https://c.d/x%20y?z=1"

Words == {WordPlain, WordColon, WordScheme, WordUrl, WordUrlPath}

WordChars(w) ==
  CASE w = WordPlain -> <<"h", "i">>
    [] w = WordColon -> <<"s", "e", "e", ":">>
    [] w = WordScheme -> \* a scheme with nothing after it
       <<"h", "t", "t", "p", ":", "/", "/">>
    [] w = WordUrl -> <<"h", "t", "t", "p", ":", "/", "/", "a", ".", "b">>
    [] w = WordUrlPath -> \* path, percent-encoded byte and query
       <<"h", "t", "t", "p", "s", ":", "/", "/", "c", ".", "d", "/", "x", "%", "2", "0", "y", "?", "z", "=", "1">>

\* the text made of the words ws separated by single spaces
RECURSIVE JoinWords(_)
JoinWords(ws) ==
  IF ws = <<>> THEN <<>>
  ELSE IF Len(ws) = 1 THEN WordChars(ws[1])
  ELSE WordChars(ws[1]) \o <<" ">> \o JoinWords(Tail(ws))

WordTexts == UNION {[1..n -> Words] : n \in 0..MaxWords}

NoExtract == [called |-> FALSE, words |-> <<>>, urls |-> <<>>]

ExtractUrls(ws) ==
  /\ ~extracted.called
  /\ extracted' = [called |-> TRUE, words |-> ws, urls |-> extract_urls(JoinWords(ws))]
  /\ UNCHANGED <<MONITORED_CHATS, own_status, ACTIVE_LINKS, chat_messages, disk, now, job,
                 last, warnVars, checked, timer, routed, optVars>>

\* ------------------------------------------------------------------------
\* The job queue (line 434): run_repeating(check_all_links,
\* interval=CHECK_LINKS_INTERVAL, first=10)
\* ------------------------------------------------------------------------
NotRun == -1

\* after main has scheduled the job: the first run is due FIRST_RUN seconds later
InitTimer == [clock |-> 0, next_run |-> FIRST_RUN, prev_run |-> NotRun, last_run |-> NotRun]

\* one second passes while no run is due
TimerTick ==
  /\ timer.clock < MaxClock
  /\ timer.clock < timer.next_run
  /\ timer' = [timer EXCEPT !.clock = @ + 1]
  /\ UNCHANGED <<MONITORED_CHATS, own_status, ACTIVE_LINKS, chat_messages, disk, now, job,
                 last, warnVars, checked, extracted, routed, optVars>>

\* the run that is due is started, the next one is due interval seconds later
TimerFire ==
  /\ timer.clock = timer.next_run
  /\ timer' = [timer EXCEPT !.prev_run = timer.last_run,
                            !.last_run = timer.clock,
                            !.next_run = @ + CHECK_LINKS_INTERVAL]
  /\ UNCHANGED <<MONITORED_CHATS, own_status, ACTIVE_LINKS, chat_messages, disk, now, job,
                 last, warnVars, checked, extracted, routed, optVars>>

\* the clock
Tick ==
  /\ now + DaysPerTick <= MaxNow
  /\ now' = now + DaysPerTick
  /\ UNCHANGED <<MONITORED_CHATS, own_status, ACTIVE_LINKS, chat_messages, disk, job, last,
                 warnVars, checked, extracted, timer, routed, optVars>>

\* ------------------------------------------------------------------------
\* OptionDirectBot (src/OptionDirectBot.py).  The application is built
\* without concurrent_updates (line 374), so it handles one update at a time:
\* a handler starts only when the one before it has returned or raised.  The
\* handlers start, help and clear (lines 74-155) only send and delete
\* messages and change nothing of what is modelled here.
\* ------------------------------------------------------------------------
chanVars == <<MONITORED_CHATS, own_status, ACTIVE_LINKS, chat_messages, disk, now, job, last,
              checked, extracted, timer, routed>>

OptUsers == {"u1", "u2"}

\* lines 42-47
CallbackData == {"create", "modify", "optimize", "check", "like", "dislike"}

\* the file id of the largest size of a photo (line 307)
PhotoFileId == "file"

\* context.user_data of a user: get('state') and get('image_file_id') read
\* None while the key is missing
NoUserData == [state |-> NoneId, image_file_id |-> NoneId]

IdleRun == [pc |-> "idle", user |-> NoneId, kind |-> "none", req |-> 0, position |-> 0,
            photo |-> FALSE]

NoUpdate == [handler |-> "none", user |-> NoneId, photo |-> FALSE, raised |-> FALSE]

\* the record of a handler that has finished with an update of user u
Handled(handler, u, photo, raised) ==
  [handler |-> handler, user |-> u, photo |-> photo, raised |-> raised]

InitOption ==
  /\ processing_queue = <<>>
  /\ user_data = [u \in OptUsers |-> NoUserData]
  /\ feedback_counts = [likes |-> 0, dislikes |-> 0]
  /\ running = IdleRun
  /\ requests = <<>>
  /\ tasks = 0
  /\ handled = NoUpdate

\* lines 157-215.  answered: query.answer() (line 160, outside the try)
\* succeeds; sent: the calls of the chosen branch succeed; apologised: the
\* send of the except branch (line 212) succeeds.
handle_callback_query(u, data, answered, sent, apologised) ==
  /\ running.pc = "idle"
  /\ data = "like" => feedback_counts.likes < MaxFeedback
  /\ data = "dislike" => feedback_counts.dislikes < MaxFeedback
  /\ IF ~answered
     THEN /\ UNCHANGED <<feedback_counts, user_data>>
          /\ handled' = Handled("handle_callback_query", u, FALSE, TRUE)
     ELSE /\ feedback_counts' =
               IF data = "like" THEN [feedback_counts EXCEPT !.likes = @ + 1]
               ELSE IF data = "dislike" THEN [feedback_counts EXCEPT !.dislikes = @ + 1]
               ELSE feedback_counts
          /\ user_data' =
               IF sent /\ data = "create"
               THEN [user_data EXCEPT ![u].state = "awaiting_create_prompt"]
               ELSE IF sent /\ data = "modify"
               THEN [user_data EXCEPT ![u].state = "awaiting_modify_image"]
               ELSE user_data
          /\ handled' = Handled("handle_callback_query", u, FALSE, ~sent /\ ~apologised)
  /\ UNCHANGED <<processing_queue, running, requests, tasks, warnVars, chanVars>>

PromptStates == {"awaiting_create_prompt", "awaiting_modify_prompt"}

\* handle_message that sets the state at line 306 and leaves the file id as it is
Option_handle_message_no_file_id(u, msg, sent) ==
  /\ running.pc = "idle"
  /\ ~msg.private \/ msg.old \/ user_data[u].state \notin PromptStates
  /\ IF ~msg.private
     THEN /\ UNCHANGED user_data
          /\ handled' = Handled("handle_message", u, msg.photo, FALSE)
     ELSE /\ user_data' =
               IF ~msg.old /\ user_data[u].state = "awaiting_modify_image" /\ msg.photo /\ sent
               THEN [user_data EXCEPT ![u].state = "awaiting_modify_prompt"]
               ELSE user_data
          /\ handled' = Handled("handle_message", u, msg.photo, ~sent)
  /\ UNCHANGED <<processing_queue, feedback_counts, running, requests, tasks, warnVars, chanVars>>

\* handle_message (lines 223-368) on a message that starts no request: not a
\* private chat (225-226), an old message (237-249), an image awaited
\* (299-312) or no dialogue (364-368).  sent: the send_message succeeds.
Option_handle_message(u, msg, sent) ==
  /\ running.pc = "idle"
  /\ ~msg.private \/ msg.old \/ user_data[u].state \notin PromptStates
  /\ IF ~msg.private
     THEN /\ UNCHANGED user_data
          /\ handled' = Handled("handle_message", u, msg.photo, FALSE)
     ELSE /\ user_data' =
               IF ~msg.old /\ user_data[u].state = "awaiting_modify_image" /\ msg.photo /\ sent
               THEN [user_data EXCEPT ![u] = [state |-> "awaiting_modify_prompt",
                                              image_file_id |-> PhotoFileId]]
               ELSE user_data
          /\ handled' = Handled("handle_message", u, msg.photo, ~sent)
  /\ UNCHANGED <<processing_queue, feedback_counts, running, requests, tasks, warnVars, chanVars>>

\* lines 251-263 and 314-327: a prompt arrives; the position is read and the
\* status message is being sent
PromptStart(u, msg) ==
  /\ running.pc = "idle"
  /\ msg.private /\ ~msg.old
  /\ user_data[u].state \in PromptStates
  /\ Len(requests) < MaxRequests
  /\ running' = [pc |-> "status_send", user |-> u,
                 kind |-> IF user_data[u].state = "awaiting_create_prompt"
                          THEN "create" ELSE "modify",
                 req |-> 0, position |-> Len(processing_queue), photo |-> msg.photo]
  /\ UNCHANGED <<processing_queue, user_data, feedback_counts, requests, tasks, handled,
                 warnVars, chanVars>>

\* lines 297 and 361-362
ResetState(ud, run) ==
  [ud EXCEPT ![run.user] =
     [state |-> NoneId,
      image_file_id |-> IF run.kind = "modify" THEN NoneId ELSE ud[run.user].image_file_id]]

\* lines 260-270 and 324-334: the status send returns; the request is
\* appended (266, 330); at position 0 it is processed, otherwise the handler
\* resets the state and returns
StatusSendReturn(ok) ==
  /\ running.pc = "status_send"
  /\ IF ~ok
     THEN /\ running' = IdleRun
          /\ handled' = Handled("handle_message", running.user, running.photo, TRUE)
          /\ UNCHANGED <<processing_queue, requests, user_data>>
     ELSE /\ requests' = Append(requests, [user |-> running.user, kind |-> running.kind,
                                           position |-> running.position,
                                           completed |-> FALSE, failed |-> FALSE])
          /\ processing_queue' = Append(processing_queue, <<running.user, Len(requests) + 1>>)
          /\ IF running.position = 0
             THEN /\ running' = [running EXCEPT !.pc = "processing", !.req = Len(requests) + 1]
                  /\ UNCHANGED <<user_data, handled>>
             ELSE /\ running' = IdleRun
                  /\ user_data' = ResetState(user_data, running)
                  /\ handled' = Handled("handle_message", running.user, running.photo, FALSE)
  /\ UNCHANGED <<feedback_counts, tasks, warnVars, chanVars>>

\* lines 217-221: the sleep of simulate_processing awaited by the handler ends
ProcessingReturn ==
  /\ running.pc = "processing"
  /\ running' = [running EXCEPT !.pc = "delete_status"]
  /\ UNCHANGED <<processing_queue, user_data, feedback_counts, requests, tasks, handled,
                 warnVars, chanVars>>

\* lines 273-276 and 337-340: delete_message returns or raises
DeleteStatusReturn(ok) ==
  /\ running.pc = "delete_status"
  /\ IF ok
     THEN /\ running' = [running EXCEPT !.pc = "send_completion"]
          /\ UNCHANGED <<handled, requests>>
     ELSE /\ running' = IdleRun
          /\ requests' = [requests EXCEPT ![running.req].failed = TRUE]
          /\ handled' = Handled("handle_message", running.user, running.photo, TRUE)
  /\ UNCHANGED <<processing_queue, user_data, feedback_counts, tasks, warnVars, chanVars>>

\* lines 285-297 and 349-362: the completion message is sent, the head of the
\* queue is removed, a task is created for the next entry, the state is reset
CompletionReturn(ok) ==
  /\ running.pc = "send_completion"
  /\ running' = IdleRun
  /\ IF ok
     THEN /\ requests' = [requests EXCEPT ![running.req].completed = TRUE]
          /\ processing_queue' = Tail(processing_queue)
          /\ tasks' = IF Tail(processing_queue) # <<>> THEN tasks + 1 ELSE tasks
          /\ user_data' = ResetState(user_data, running)
          /\ handled' = Handled("handle_message", running.user, running.photo, FALSE)
     ELSE /\ requests' = [requests EXCEPT ![running.req].failed = TRUE]
          /\ handled' = Handled("handle_message", running.user, running.photo, TRUE)
          /\ UNCHANGED <<processing_queue, tasks, user_data>>
  /\ UNCHANGED <<feedback_counts, warnVars, chanVars>>

\* ------------------------------------------------------------------------
\* Inputs
\* ------------------------------------------------------------------------
\* texts of the messages that reach message_store_handler
StoreTexts == {TextPlain, TextBad, TextGood}

\* updates the MessageHandlers receive
MessageUpdates(texts, users) ==
  [kind : {"message"}, chat : Chats, private : {FALSE}, from_user : users, text : texts]
  \cup [kind : {"channel_post"}, chat : Chats, private : {FALSE}, from_user : {NoneId},
        text : texts]

\* what get_chat_member would answer about the bot in the chat of an update
\* at the time the update is handled (lines 153-163; no line of the running
\* code issues the query: the call of line 250 is commented out)
MembershipAnswers == {"administrator", "member", "left", "kicked", "TelegramError"}

WithMembership(upds) == {upd @@ [membership |-> q] : upd \in upds, q \in MembershipAnswers}

\* whether the platform would accept the delete of the message of an update
\* (line 260), or answer it with TelegramError
WithDeleteAnswer(upds) == {upd @@ [delete_ok |-> ok] : upd \in upds, ok \in BOOLEAN}

PrivateUpdates ==
  [kind : {"message"}, chat : {"p1"}, private : {TRUE}, from_user : {"u1"}, text : {TextPlain}]

OtherUpdates ==
  [kind : {"other"}, chat : Chats, private : {FALSE}, from_user : {NoneId}, text : {TextPlain}]

Statuses == {"administrator", "member", "left", "kicked"}

\* my_chat_member updates about the bot's own account
BotEvents(statuses) ==
  [my_chat_member : {TRUE}, is_bot : {TRUE}, chat : Chats, status : statuses]

\* my_chat_member updates about another account, and the service messages
\* (new_chat_members, left_chat_member), which carry no my_chat_member
ForeignEvents ==
  [my_chat_member : {TRUE}, is_bot : {FALSE}, chat : Chats, status : {"member", "left"}]
  \cup [my_chat_member : {FALSE}, is_bot : {FALSE}, chat : Chats, status : {"none"}]

\* authors of the messages that reach message_store_handler
StoreUsers == {"u1"}

\* chat_messages.pkl as an earlier run left it (lines 133-143): no file, or a
\* dict of at most MaxDiskChats chats, each with no message or one message
DiskTexts == {TextPlain, TextBad, TextGood}

DiskLists ==
  {<<>>} \cup {<<[message_id |-> 1, user_id |-> "u1", message_text |-> t, timestamp |-> 0]>> :
               t \in DiskTexts}

DiskImages ==
  {<<>>}
  \cup {<<[chat_id |-> c, messages |-> l]>> : c \in Chats, l \in DiskLists}
  \cup {<<[chat_id |-> p[1], messages |-> l], [chat_id |-> p[2], messages |-> k]>> :
        p \in {q \in Chats \X Chats : q[1] # q[2]}, l \in DiskLists, k \in DiskLists}

\* ------------------------------------------------------------------------
\* Specifications
\* ------------------------------------------------------------------------
\* module level state after import (lines 59-67) and before main
InitGlobals ==
  /\ USER_WARNINGS = EmptyDict
  /\ calls = <<>>
  /\ banned = {}
  /\ MONITORED_CHATS = {}
  /\ own_status = [c \in Chats |-> "none"]
  /\ ACTIVE_LINKS = EmptyDict
  /\ now = 0
  /\ job = IdleJob
  /\ last = NoRun
  /\ checked = NoCheck
  /\ extracted = NoExtract
  /\ timer = InitTimer
  /\ routed = NoRoute
  /\ InitOption

\* no chat_messages.pkl: load_chat_messages_from_disk leaves chat_messages = {}
InitNoFile ==
  /\ InitGlobals
  /\ disk = [exists |-> FALSE, content |-> <<>>]
  /\ chat_messages = <<>>

\* lines 138-143: load_chat_messages_from_disk
Init ==
  /\ InitGlobals
  /\ \/ /\ disk = [exists |-> FALSE, content |-> <<>>]
        /\ chat_messages = <<>>
     \/ \E image \in DiskImages :
          /\ disk = [exists |-> TRUE, content |-> image]
          /\ chat_messages = image

\* warn_user called for any user and chat, calls overlapping at their awaits
InitWarn == InitNoFile

\* The registries the summary phase is run on: what lines 329-331 are written
\* to build, url -> text of the message the url came from.
GoodUrl == UrlsOf[TextGoodGood][1]

WwwGoodUrl == UrlsOf[TextGoodGood][2]

LinkDicts ==
  {EmptyDict,
   DictSet(EmptyDict, GoodUrl, TextGood),
   DictSet(EmptyDict, GoodUrl, TextGoodGood),
   DictSet(EmptyDict, WwwGoodUrl, TextGoodGood),
   DictSet(DictSet(EmptyDict, GoodUrl, TextGoodGood), WwwGoodUrl, TextGoodGood)}

Registries == UNION {[S -> LinkDicts] : S \in SUBSET Chats}

InitSummary ==
  /\ USER_WARNINGS = EmptyDict
  /\ calls = <<>>
  /\ banned = {}
  /\ MONITORED_CHATS = {}
  /\ own_status = [c \in Chats |-> "none"]
  /\ ACTIVE_LINKS \in Registries
  /\ now = 0
  /\ job = IdleJob
  /\ last = NoRun
  /\ checked = NoCheck
  /\ extracted = NoExtract
  /\ timer = InitTimer
  /\ routed = NoRoute
  /\ InitOption
  /\ disk = [exists |-> FALSE, content |-> <<>>]
  /\ chat_messages = <<>>

\* The URLs is_allowed_domain is called on: scheme, "www.", userinfo, host,
\* port and the rest, in every combination.
UrlSchemes == {<<"h", "t", "t", "p", ":", "/", "/">>,
               <<"h", "t", "t", "p", "s", ":", "/", "/">>,
               <<"f", "t", "p", ":", "/", "/">>,
               <<"h", "t", "t", "p", ":", "/">>,
               <<>>}

UrlWww == {<<>>, <<"w", "w", "w", ".">>}

UrlUserinfos == {<<>>, <<"u", "@">>,
                 <<"b", "l", "n", "d", "e", "v", ".", "c", "o", "m", "@">>}

UrlHosts == {<<>>,
             <<"b", "l", "n", "d", "e", "v", ".", "c", "o", "m">>,
             <<"e", "v", "i", "l", ".", "e", "x", "a", "m", "p", "l", "e">>,
             <<"m", "y", "b", "l", "n", "d", "e", "v", ".", "c", "o", "m", ".", "e", "v", "i", "l", ".", "e", "x", "a", "m", "p", "l", "e">>}

UrlPorts == {<<>>, <<":", "8", "0">>}

UrlRests == {<<>>, <<"/", "a">>,
             <<"/", "b", "l", "n", "d", "e", "v", ".", "c", "o", "m">>,
             <<"?", "q", "=", "b", "l", "n", "d", "e", "v", ".", "c", "o", "m">>,
             <<"#", "b", "l", "n", "d", "e", "v", ".", "c", "o", "m">>}

DomainUrls ==
  {s \o u \o w \o h \o p \o r :
     s \in UrlSchemes, w \in UrlWww, u \in UrlUserinfos, h \in UrlHosts, p \in UrlPorts,
     r \in UrlRests}

NextDomain == \E url \in DomainUrls : IsAllowedDomain(url)

SpecDomain == InitNoFile /\ [][NextDomain]_vars

\* The updates the platform delivers (run_polling with Update.ALL_TYPES, line
\* 441): messages of a group or supergroup, posts of a channel, private
\* messages, edited messages, service notices and my_chat_member updates.
\* The bot is a member of the chat and the platform accepts a delete.
GroupChat == "c1"
ChannelChat == "c2"

DispatchTexts == {TextPlain, TextBad}

DispatchUpdates ==
  LET answered(upds) == {upd @@ [membership |-> "member", delete_ok |-> TRUE] : upd \in upds}
  IN answered(
    [kind : {"message"}, chat : {GroupChat}, chat_type : {"group", "supergroup"},
     private : {FALSE}, content : {"text", "command", "caption"},
     from_user : StoreUsers, text : DispatchTexts]
    \cup [kind : {"channel_post"}, chat : {ChannelChat}, chat_type : {"channel"},
          private : {FALSE}, content : {"text", "command", "caption"},
          from_user : {NoneId}, text : DispatchTexts]
    \cup [kind : {"message"}, chat : {"p1"}, chat_type : {"private"},
          private : {TRUE}, content : {"text", "command", "caption"},
          from_user : StoreUsers, text : {TextPlain}]
    \cup [kind : {"other"}, chat : {GroupChat}, chat_type : {"group"},
          private : {FALSE}, content : {"text", "caption"},
          from_user : {NoneId}, text : {TextPlain}]
    \cup [kind : {"message"}, chat : {GroupChat}, chat_type : {"group"},
          private : {FALSE}, content : {"new_chat_members", "left_chat_member"},
          from_user : StoreUsers, text : {""}]
    \cup [kind : {"my_chat_member"}, chat : {GroupChat, ChannelChat}, chat_type : {"group"},
          private : {FALSE}, content : {"none"},
          from_user : {NoneId}, text : {""}])

NextDispatch ==
  \/ \E upd \in DispatchUpdates :
       /\ (upd.kind = "message" /\ upd.chat \in Keys(chat_messages))
            => Len(Get(chat_messages, upd.chat)) < MaxMsgs
       /\ ProcessUpdate(upd)
       /\ UNCHANGED optVars
  \/ Tick

SpecDispatch == Init /\ [][NextDispatch]_vars

\* the messages handle_message is given (filters.TEXT | filters.PHOTO, line
\* 386): private or not, older than 60 seconds or not, a photo or a text
OptionMessages == [private : BOOLEAN, old : BOOLEAN, photo : BOOLEAN]

\* how the calls of handle_callback_query end: the answer fails; all
\* succeed; a send fails and the apology is sent; both fail
CallbackOutcomes ==
  {[answered |-> FALSE, sent |-> FALSE, apologised |-> FALSE],
   [answered |-> TRUE, sent |-> TRUE, apologised |-> TRUE],
   [answered |-> TRUE, sent |-> FALSE, apologised |-> TRUE],
   [answered |-> TRUE, sent |-> FALSE, apologised |-> FALSE]}

NextOption ==
  \/ \E u \in OptUsers, data \in CallbackData, o \in CallbackOutcomes :
       handle_callback_query(u, data, o.answered, o.sent, o.apologised)
  \/ \E u \in OptUsers, msg \in OptionMessages, sent \in BOOLEAN :
       Option_handle_message(u, msg, sent)
  \/ \E u \in OptUsers, msg \in OptionMessages : PromptStart(u, msg)
  \/ \E ok \in BOOLEAN : StatusSendReturn(ok)
  \/ ProcessingReturn
  \/ \E ok \in BOOLEAN : DeleteStatusReturn(ok)
  \/ \E ok \in BOOLEAN : CompletionReturn(ok)

SpecOption == InitNoFile /\ [][NextOption]_vars

NextTimer == TimerTick \/ TimerFire

SpecTimer == InitNoFile /\ [][NextTimer]_vars

NextExtract == \E ws \in WordTexts : ExtractUrls(ws)

SpecExtract == InitNoFile /\ [][NextExtract]_vars

NextSummary ==
  \/ \E order \in Orders(DOMAIN ACTIVE_LINKS) : SummaryStart(order)
  \/ \E ok \in BOOLEAN : SummarySendReturn(ok)

SpecSummary == InitSummary /\ [][NextSummary]_vars

NextWarn ==
  \/ \E u \in Users, ch \in Chats : WarnUserStart(u, ch)
  \/ \E i \in 1..MaxCalls, ok \in BOOLEAN : BanReturn(i, ok)
  \/ \E i \in 1..MaxCalls, ok \in BOOLEAN : BanNoticeReturn(i, ok)
  \/ \E i \in 1..MaxCalls, ok \in BOOLEAN : WarnSendReturn(i, ok)
  \/ \E i \in 1..MaxCalls : WarnSleepReturn(i)
  \/ \E i \in 1..MaxCalls, ok \in BOOLEAN : WarnDeleteReturn(i, ok)

SpecWarn == InitWarn /\ [][NextWarn]_vars

\* the updates handle_message is run on
HandleUpdates ==
  WithDeleteAnswer(WithMembership(MessageUpdates(Texts, Users) \cup OtherUpdates))

\* handle_message and handle_chat_join on every update
NextHandle ==
  \/ \E upd \in HandleUpdates : handle_message(upd) /\ UNCHANGED <<routed, optVars>>
  \/ \E ev \in BotEvents(Statuses) \cup ForeignEvents, ok \in BOOLEAN :
       handle_chat_join(ev, ok) /\ UNCHANGED <<routed, optVars>>

SpecHandle == InitNoFile /\ [][NextHandle]_vars

\* the message store, the membership events, the clock and the periodic job
StoreStep ==
  \E upd \in MessageUpdates(StoreTexts, StoreUsers) \cup PrivateUpdates \cup OtherUpdates :
    /\ (upd.kind = "message" /\ upd.chat \in Keys(chat_messages))
         => Len(Get(chat_messages, upd.chat)) < MaxMsgs
    /\ message_store_handler(upd)
    /\ UNCHANGED <<routed, optVars>>

Next ==
  \/ StoreStep
  \/ \E ev \in BotEvents({"member", "left"}), ok \in BOOLEAN :
       handle_chat_join(ev, ok) /\ UNCHANGED <<routed, optVars>>
  \/ CheckAllLinksStart
  \/ \E probe \in Probes : CheckUrlReturn(probe)
  \/ Tick

Spec == Init /\ [][Next]_vars

\* ------------------------------------------------------------------------
\* Reference: N warn_user calls run one after another, every outbound
\* operation succeeding (lines 353-365 executed N times without overlap)
\* ------------------------------------------------------------------------
RECURSIVE SequentialRun(_, _)
SequentialRun(N, u) ==
  IF N = 0 THEN [d |-> EmptyDict, bans |-> 0]
  ELSE LET prev == SequentialRun(N - 1, u)
           d == WarnIncrement(prev.d, u)
       IN IF ThresholdReached(d[u])
          THEN [d |-> DictDel(d, u), bans |-> prev.bans + 1]
          ELSE [d |-> d, bans |-> prev.bans]

CallsOf(u) == {i \in 1..Len(calls) : calls[i].user = u}

BansIssued(u) == Cardinality({i \in CallsOf(u) : calls[i].ban})

\* ------------------------------------------------------------------------
\* Claims
\* ------------------------------------------------------------------------

\* C1: for a user with no warning record, the first WARNING_THRESHOLD-1 calls
\* of warn_user issue no ban_chat_member; the WARNING_THRESHOLD-th call issues
\* it and, once that call has finished, the user's count is 0 (entry absent).
C1_ThresholdBanResets ==
  \A i \in 1..Len(calls) :
    /\ calls[i].ord < WARNING_THRESHOLD => ~calls[i].ban
    /\ calls[i].ord = WARNING_THRESHOLD =>
          /\ calls[i].ban
          /\ Finished(calls[i]) => calls[i].endCount = 0

\* C2: N concurrently running warn_user calls for one user end in the
\* USER_WARNINGS state and the number of bans of N calls run one after
\* another; no increment is lost and no call fails because another call
\* removed the entry.  (Stated for runs in which no outbound operation fails.)
C2_ConcurrentEqualsSequential ==
  \A u \in Users :
    (/\ AllFinished(u)
     /\ \A i \in CallsOf(u) : calls[i].err # "TelegramError")
    => /\ Count(u) = CountIn(SequentialRun(Started(u), u).d, u)
       /\ BansIssued(u) = SequentialRun(Started(u), u).bans
       /\ \A i \in CallsOf(u) : calls[i].err # "KeyError"

\* C3: when warn_user reaches the threshold and the ban operation
\* (ban_chat_member or the removal notice) fails, the user's counter is still
\* reset to 0, and the user's next violation starts a new cycle at count 1
\* instead of triggering another ban attempt.
C3_FailedBanStillResets ==
  \A i \in 1..Len(calls) :
    (calls[i].ban /\ Finished(calls[i]) /\ calls[i].err = "TelegramError")
    => /\ calls[i].endCount = 0
       /\ \A j \in 1..Len(calls) :
            (/\ calls[j].user = calls[i].user
             /\ calls[j].ord = calls[i].ord + 1
             /\ calls[j].prevDone)
            => (calls[j].n = 1 /\ ~calls[j].ban)

\* the URLs of the message the last handle_message run was given
LastUrls == UrlsOf[last.text]

LastHasDisallowed == \E k \in 1..Len(LastUrls) : ~AllowedUrl[LastUrls[k]]

\* how often an operation occurs in a sequence of operations
Occurrences(ops, op) == Cardinality({k \in 1..Len(ops) : ops[k] = op})

\* a check_all_links cycle has ended, by return or by an exception
CycleEnded == job.pc = "idle" /\ job.outcome # "none"

\* the chats a cycle has reached so far
ScannedChats == {job.scanned[i] : i \in 1..Len(job.scanned)}

\* C4: at the end of every check_all_links cycle, ACTIVE_LINKS holds no entry
\* for any chat processed in that cycle.
C4_ActiveLinksClearedAfterCycle ==
  CycleEnded => \A c \in ScannedChats : c \notin DOMAIN ACTIVE_LINKS

\* C5: a check_all_links cycle scans a chat only if that chat is in
\* MONITORED_CHATS when the cycle runs; in particular no cycle started after a
\* 'left' event for a chat visits that chat.
C5_OnlyMonitoredChatsVisited ==
  [][(job.pc = "idle" /\ job' # job)
       => \A i \in 1..Len(job'.scanned) : job'.scanned[i] \in MONITORED_CHATS]_vars

\* C6: chat c is in MONITORED_CHATS if and only if the most recent event about
\* the bot's own account in c reported 'administrator' or 'member'; 'left' or
\* 'kicked' removes c, and a chat never joined is absent.
C6_MonitoredIffLastStatusJoined ==
  \A c \in Chats : c \in MONITORED_CHATS <=> own_status[c] \in JoinedStatus

\* C7: for a group message with at least one URL that is_allowed_domain
\* rejects, handle_message deletes the message, the author's warning count
\* goes up by one (through warn_user), and a notice is posted.
C7_DisallowedLinkDeletedAndWarned ==
  (last.handler = "handle_message" /\ last.kind = "message" /\ LastHasDisallowed)
  => /\ Occurrences(last.ops, "delete_message") = 1
     /\ Occurrences(last.ops, "warn_user") = 1
     /\ Count(last.from_user) >= 1

C9_AllowedLinksRegistered ==
  (/\ last.handler = "handle_message"
   /\ last.kind # "other"
   /\ LastUrls # <<>>
   /\ ~LastHasDisallowed)
  => /\ last.chat \in DOMAIN ACTIVE_LINKS
     /\ \A k \in 1..Len(LastUrls) :
          /\ LastUrls[k] \in DOMAIN ACTIVE_LINKS[last.chat]
          /\ ACTIVE_LINKS[last.chat][LastUrls[k]] = last.text

\* C10: a failure while handling one stored message, link or chat does not
\* stop the cycle: every cycle that ends has reached every chat that was in
\* chat_messages when it started, and has cleared ACTIVE_LINKS.
C10_FailuresConfined ==
  CycleEnded => (job.scanned = job.at_start /\ ACTIVE_LINKS = EmptyDict)

C12_FailClosedMembership ==
  (/\ last.handler = "handle_message"
   /\ last.kind # "other"
   /\ last.membership \in {"left", "kicked", "TelegramError"})
  => last.chat \notin MONITORED_CHATS

\* C13: every join or leave service notice handed to handle_chat_join is
\* deleted.
C13_ServiceNoticesDeleted ==
  (last.handler = "handle_chat_join" /\ last.kind = "service_notice")
  => Occurrences(last.ops, "delete_message") = 1

\* check_url has returned in the cycle job records
Probed == job.probe # NoProbe

\* the chat of the URL the cycle reached
LinkChat == job.scanned[Len(job.scanned)]

\* C14: check_url reports a probe as not valid with reason '403 Forbidden'
\* exactly when the status is 403, as not valid with reason '301 Moved
\* Permanently to <Location>' exactly when the status is 301, and as valid
\* for every other status and for every transport error or timeout.
C14_CheckUrlClassification ==
  Probed =>
    LET p == job.probe
        r == job.result
    IN /\ (p.answered /\ p.status = 403)
            <=> (~r.is_valid /\ r.error_message = "403 Forbidden")
       /\ (p.answered /\ p.status = 301)
            <=> (/\ ~r.is_valid
                 /\ r.error_message \in {"301 Moved Permanently to unknown",
                                         "301 Moved Permanently to https://blndev.com/b"}
                 /\ p.location # NoneId
                      => r.error_message = "301 Moved Permanently to https://blndev.com/b")
       /\ (~p.answered \/ p.status \notin {301, 403})
            <=> (r.is_valid /\ r.error_message = "")

\* check_url has classified a 301 answer that names its Location
C14_Witness == Probed /\ job.probe.status = 301 /\ job.probe.location # NoneId

\* C15: when the probe of an allowed link reports it not valid, the message
\* with the link is deleted, a notice is posted in that chat, and the link is
\* not in ACTIVE_LINKS.
C15_BrokenLinkRemoved ==
  (CycleEnded /\ job.link = "allowed" /\ Probed /\ ~job.result.is_valid)
  => /\ \E k \in 1..Len(job.ops) :
          job.ops[k].op = "delete_message" /\ job.ops[k].chat = LinkChat
     /\ \E k \in 1..Len(job.ops) :
          job.ops[k].op = "send_notice" /\ job.ops[k].chat = LinkChat
     /\ (LinkChat \notin DOMAIN ACTIVE_LINKS \/ ACTIVE_LINKS[LinkChat] = EmptyDict)

\* C16: in each cycle a chat with an allowed link that probed valid gets
\* exactly one summary message, and a chat without one gets none.
C16_OneSummaryPerChatWithLinks ==
  CycleEnded =>
    \A c \in Chats :
      Cardinality({k \in 1..Len(job.ops) :
                     job.ops[k].op = "send_summary" /\ job.ops[k].chat = c})
        = IF job.link = "allowed" /\ Probed /\ job.result.is_valid /\ c = LinkChat
          THEN 1 ELSE 0
\* The host of an http or https URL: the authority runs from the end of the
\* scheme to the first "/", "?" or "#"; the host is what follows the last "@"
\* of the authority, up to the first ":" after it.
RECURSIVE AuthorityEnd(_, _)
AuthorityEnd(url, i) ==
  IF i <= Len(url) /\ url[i] \notin {"/", "?", "#"} THEN AuthorityEnd(url, i + 1) ELSE i - 1

HostStart(url) ==
  LET s == SchemeEnd(url, 1)
      e == AuthorityEnd(url, s)
      ats == {k \in s..e : url[k] = "@"}
  IN IF ats = {} THEN s ELSE (CHOOSE k \in ats : \A m \in ats : m <= k) + 1

HostEnd(url) ==
  LET e == AuthorityEnd(url, SchemeEnd(url, 1))
      colons == {k \in HostStart(url)..e : url[k] = ":"}
  IN IF colons = {} THEN e ELSE (CHOOSE k \in colons : \A m \in colons : k <= m) - 1

UrlHost(url) ==
  IF SchemeEnd(url, 1) = 0 THEN <<>> ELSE SubSeq(url, HostStart(url), HostEnd(url))

HostHasAllowedDomain(url) == \E allowed \in ALLOWED_DOMAINS : Contains(UrlHost(url), allowed)

\* the parse of line 190 finds nothing: nowhere in the url does "http://" or
\* "https://" stand before a character other than "/"
NoHostParsed(url) ==
  \A i \in 1..Len(url) :
    SchemeEnd(url, i) # 0 => (SchemeEnd(url, i) > Len(url) \/ url[SchemeEnd(url, i)] = "/")

C18_AllowedOnlyByHost ==
  (checked.called /\ checked.result = TRUE) => HostHasAllowedDomain(checked.url)

\* C19: when check_all_links finds a stored message with a disallowed link,
\* the delete of that message is executed and warn_user is called for the
\* author stored with the message.
C19_DisallowedStoredLinkActedOn ==
  (CycleEnded /\ job.link = "disallowed")
  => /\ \E k \in 1..Len(job.ops) :
          job.ops[k].op = "delete_message" /\ job.ops[k].chat = LinkChat
     /\ \E k \in 1..Len(job.ops) :
          job.ops[k].op = "warn_user" /\ job.ops[k].chat = LinkChat

\* C20: every message a check_all_links cycle scans is at most
\* SCAN_MESSAGE_DAYS days old at the time of the scan.
C20_ScannedMessagesRecent ==
  [][(job.pc = "idle" /\ job' # job)
       => LET f == FirstUrlFrom(chat_messages, 1, 1)
          IN \A i \in 1..Len(chat_messages) :
               \A k \in 1..Len(chat_messages[i].messages) :
                 (~f.found \/ i < f.ci \/ (i = f.ci /\ k <= f.mi))
                 => now - chat_messages[i].messages[k].timestamp <= SCAN_MESSAGE_DAYS]_vars

\* C21: if the delete of a message with a disallowed link fails in
\* handle_message, nothing propagates out of the handler and the author's
\* violation is still recorded through warn_user.
C21_FailedDeleteStillWarns ==
  (/\ last.handler = "handle_message"
   /\ last.kind = "message"
   /\ LastHasDisallowed
   /\ ~last.delete_ok)
  => /\ last.raised = "none"
     /\ Occurrences(last.ops, "warn_user") = 1

\* C22: a TelegramError raised by an outbound operation of handle_message,
\* handle_chat_join, warn_user or check_all_links never propagates out of the
\* handler that issued the operation.
C22_TelegramErrorsContained ==
  /\ last.raised # "TelegramError"
  /\ job.outcome # "TelegramError"
  /\ \A i \in 1..Len(calls) : calls[i].pc = "raised" => calls[i].err # "TelegramError"

\* the stored count of user u is at the threshold only while a ban of u is
\* being executed
BanInProgress(u) ==
  \E i \in 1..Len(calls) : calls[i].user = u /\ calls[i].pc \in {"ban", "ban_notice"}

\* C23: in every reachable state the stored count of a user is at most
\* WARNING_THRESHOLD, and equals it only while that user's ban is being
\* executed; the count never decreases except by the reset to 0.
C23_CountBoundedByThreshold ==
  [][\A u \in Users :
       /\ CountIn(USER_WARNINGS', u) <= WARNING_THRESHOLD
       /\ CountIn(USER_WARNINGS', u) = WARNING_THRESHOLD => BanInProgress(u)'
       /\ CountIn(USER_WARNINGS', u) >= Count(u) \/ CountIn(USER_WARNINGS', u) = 0]_vars

\* the calls of user u in chat ch
CallsIn(u, ch) == {i \in CallsOf(u) : calls[i].chat = ch}

\* C30: the warning count is kept per user across all chats: while no ban has
\* been triggered the stored count is the number of the user's violations in
\* all chats together; a user is banned only in a chat in which one of their
\* violations met the threshold.
C30_CountAcrossChatsBanInOneChat ==
  \A u \in Users :
    /\ (\A i \in CallsOf(u) : ~calls[i].ban) => Count(u) = Cardinality(CallsOf(u))
    /\ \A ch \in Chats :
         <<ch, u>> \in banned => \E i \in CallsIn(u, ch) : calls[i].ban

\* violations of one user in both chats have added up to a ban in one chat only
C30_Witness ==
  \E u \in Users :
    /\ CallsIn(u, "c1") # {} /\ CallsIn(u, "c2") # {}
    /\ <<"c2", u>> \in banned
    /\ <<"c1", u>> \notin banned
    /\ \A i \in CallsOf(u) : calls[i].ban => calls[i].n = WARNING_THRESHOLD

\* the words of a text that are URLs, in order
IsUrlWord(w) == w \in {WordUrl, WordUrlPath}

UrlWordsOf(ws) == SelectSeq(ws, IsUrlWord)

\* C24: extract_urls returns one entry per URL token of the text, in
\* left-to-right order, a URL that occurs twice giving two entries, and the
\* empty list for a text with no URL token.
C24_OneEntryPerUrlToken ==
  extracted.called =>
    LET tokens == UrlWordsOf(extracted.words)
    IN extracted.urls = [k \in 1..Len(tokens) |-> WordChars(tokens[k])]

C24_Witness ==
  /\ extracted.called
  /\ extracted.words = <<WordUrl, WordPlain, WordUrl>>
  /\ Len(extracted.urls) = 2
  /\ extracted.urls[1] = extracted.urls[2]

\* C25: the link check runs every 30 minutes: two consecutive runs of the
\* job are 1800 seconds apart.
C25_RunsEveryThirtyMinutes ==
  timer.prev_run # NotRun => timer.last_run - timer.prev_run = DOCUMENTED_MINUTES * 60

\* C26: every text or caption message of a channel, group or supergroup is
\* given to handle_message, a plain text message included.
C26_EveryMessageReachesHandleMessage ==
  (/\ routed.handled
   /\ routed.kind \in {"message", "channel_post"}
   /\ routed.chat_type \in {"channel", "group", "supergroup"}
   /\ routed.content \in {"text", "command", "caption"})
  => /\ routed.handler = "handle_message"
     /\ last.handler = "handle_message"
     /\ last.chat = routed.chat /\ last.text = routed.text

\* the message dict cm holds an entry of chat c with this author, text and time
StoredIn(cm, c, user, text, at) ==
  /\ c \in Keys(cm)
  /\ \E k \in 1..Len(Get(cm, c)) :
       /\ Get(cm, c)[k].user_id = user
       /\ Get(cm, c)[k].message_text = text
       /\ Get(cm, c)[k].timestamp = at

\* C28: after message_store_handler has handled a message of a group or a
\* post of a channel, chat_messages holds an entry of that chat with the
\* message's author, text and time; also for the first message of a chat.
C28_HandledMessageIsStored ==
  (/\ routed.handler = "message_store_handler"
   /\ routed.kind \in {"message", "channel_post"}
   /\ routed.chat_type # "private")
  => /\ routed.raised = "none"
     /\ StoredIn(chat_messages, routed.chat, routed.from_user, routed.text, routed.at)

\* C27: for a channel post, which has no author, with a disallowed link,
\* handle_message deletes the message, calls no warn_user and leaves
\* USER_WARNINGS and the bans as they were.
C27_AuthorlessLinkDeletedNoWarning ==
  (/\ last.handler = "handle_message"
   /\ last.kind = "channel_post"
   /\ last.from_user = NoneId
   /\ LastHasDisallowed
   /\ last.delete_ok)
  => /\ last.raised = "none"
     /\ Occurrences(last.ops, "delete_message") = 1
     /\ Occurrences(last.ops, "warn_user") = 0
     /\ USER_WARNINGS = EmptyDict
     /\ banned = {}

\* the chat ids that are keys of chat_messages, in the order of the dict
ChatsNow == ScannedUpTo(chat_messages, Len(chat_messages))

\* C29: when message_store_handler has changed the keys of chat_messages
\* while a check_all_links cycle was waiting, the cycle does not fail with
\* the error of a dict changed during iteration and it scans every chat that
\* was in chat_messages when it started.
C29_CycleSurvivesConcurrentStore ==
  [][(/\ job.pc = "check_url"
      /\ job'.pc = "idle"
      /\ ChatsNow # job.at_start)
     => (/\ job'.outcome # "RuntimeError"
         /\ job'.scanned = job'.at_start)]_vars

\* request k is an entry of processing_queue
InQueue(k) == \E i \in 1..Len(processing_queue) : processing_queue[i][2] = k

\* no handler is in progress and no created task is pending: nothing but a
\* new update can act
OptionQuiescent == running.pc = "idle" /\ tasks = 0

\* C31: every request appended to processing_queue is removed from it and
\* its requester is sent the completion message, also a request appended
\* behind an earlier one whose completion failed: once no handler and no task
\* is left to act, every request none of whose own calls failed is out of the
\* queue and completed.
C31_RequestsRemovedAndCompleted ==
  OptionQuiescent =>
    \A k \in 1..Len(requests) :
      ~requests[k].failed => (~InQueue(k) /\ requests[k].completed)

\* a step ends the handling of a prompt of user u without an exception
PromptHandled(u) ==
  /\ running.pc \in {"status_send", "send_completion"}
  /\ running.user = u
  /\ running'.pc = "idle"
  /\ ~handled'.raised

====
